---- MODULE Spec2Model ----
(* RustyTasks-UI: the recursive folder/task tree (src/src/task.rs) and the   *)
(* modal key-event loop that edits it (src/src/main.rs, run).                *)
(*                                                                           *)
(* Strings are sequences of one-character strings, so that parsing, case     *)
(* folding and typing are computed character by character.                  *)
EXTENDS Integers, Sequences, FiniteSets, TLC

VARIABLES
    pc,            \* "boot" | "run" | "quit" | "err" | "panic" | "exited": where main/run is
    process,       \* main: the terminal, what went to stderr, the exit status
    home,          \* directories::UserDirs::new() is Some
    file,          \* ~/.rtasks/tasks.json: [state, data]
    folder,        \* run: the root Folder
    selected,      \* run: Vec<String>, the path of the current folder
    input_status,  \* run: InputStatus
    input,         \* run: the value of the tui_input::Input
    temp_task,     \* run: the pending Task of the NewTask chain
    selected_tab   \* run: the tab index

vars == <<pc, process, home, file, folder, selected, input_status, input, temp_task, selected_tab>>

------------------------------------------------------------------------------
(* Bounds of the model.                                                      *)

\* Most entries (folders and tasks together, the root not counted) in the tree.
MaxEntries == 2

------------------------------------------------------------------------------
(* Values.                                                                   *)

\* u8::MAX, the width of Status.color
U8Max == 255

\* The number of tabs the Tab key cycles through.
NumTabs == 3

\* Status::default()
DefaultStatus == [status |-> <<"I","n","c","o","m","p","l","e","t","e">>, color |-> 5]

\* Task::default() (derived: empty strings, Status::default())
DefaultTask == [title |-> <<>>, task |-> <<>>, status |-> DefaultStatus]

\* Folder::new() / Folder::default(), then `folder.name = name`
NewFolder(name) == [name |-> name, tasks |-> <<>>, folders |-> <<>>, selected |-> 0]

\* Folder::default()
DefaultFolder == NewFolder(<<>>)

\* i32::clamp: panics (assert!(min <= max)) when min > max.
ClampPanics(min, max) == min > max

Clamp(x, min, max) == IF x < min THEN min ELSE IF x > max THEN max ELSE x

\* Mutant of Remove: the last element is removed, whatever the index.
Remove_last(s, i) == [k \in 1..(Len(s) - 1) |-> s[k]]

\* Vec::remove(i) with a 0-based index i < len.
Remove(s, i) == [k \in 1..(Len(s) - 1) |-> IF k <= i THEN s[k] ELSE s[k + 1]]

------------------------------------------------------------------------------
(* Folder (task.rs). Every method is an operator from the folder's value to  *)
(* its new value or to the method's result.                                 *)

\* len(folders) + len(tasks): the length of the unified listing.
Total(f) == Len(f.folders) + Len(f.tasks)

\* Mutant of new_task: the cursor is moved to the new task.
new_task_selects(f, task) ==
    [f EXCEPT !.tasks = Append(@, task), !.selected = Len(f.folders) + Len(f.tasks)]

new_task(f, task) == [f EXCEPT !.tasks = Append(@, task)]

\* Mutant of new_folder: the cursor moves onto the new folder.
new_folder_selects(f, name) ==
    [f EXCEPT !.folders = Append(@, NewFolder(name)), !.selected = Len(f.folders)]

new_folder(f, name) == [f EXCEPT !.folders = Append(@, NewFolder(name))]

\* adjust_selected panics in clamp(0, max) when max = -1, i.e. on an empty folder.
adjust_selected_panics(f) == ClampPanics(0, Len(f.tasks) + Len(f.folders) - 1)

\* Mutant of adjust_selected: the cursor may go one past the last entry.
adjust_selected_past_end(f, dist) ==
    LET max == Len(f.tasks) + Len(f.folders)
    IN  [f EXCEPT !.selected = Clamp(f.selected + dist, 0, max)]

adjust_selected(f, dist) ==
    LET max == Len(f.tasks) + Len(f.folders) - 1
    IN  [f EXCEPT !.selected = Clamp(f.selected + dist, 0, max)]

\* Mutant of delete_selected: the cursor is not stepped back after the removal.
delete_selected_keeps_cursor(f) ==
    IF Len(f.folders) = 0 /\ Len(f.tasks) = 0 THEN f
    ELSE IF f.selected < Len(f.folders)
         THEN [f EXCEPT !.folders = Remove(@, f.selected)]
         ELSE [f EXCEPT !.tasks = Remove(@, f.selected - Len(f.folders))]

\* Mutant of delete_selected: a selected subfolder is not removed.
delete_selected_keeps_folder(f) ==
    IF Len(f.folders) = 0 /\ Len(f.tasks) = 0 THEN f
    ELSE IF f.selected < Len(f.folders)
         THEN [f EXCEPT !.selected = IF f.selected > 0 THEN f.selected - 1 ELSE f.selected]
         ELSE [f EXCEPT !.tasks = Remove(@, f.selected - Len(f.folders)),
                        !.selected = IF f.selected > 0 THEN f.selected - 1 ELSE f.selected]

delete_selected(f) ==
    IF Len(f.folders) = 0 /\ Len(f.tasks) = 0 THEN f
    ELSE IF f.selected < Len(f.folders)
         THEN [f EXCEPT !.folders = Remove(@, f.selected),
                        !.selected = IF f.selected > 0 THEN f.selected - 1 ELSE f.selected]
         ELSE [f EXCEPT !.tasks = Remove(@, f.selected - Len(f.folders)),
                        !.selected = IF f.selected > 0 THEN f.selected - 1 ELSE f.selected]

\* delete_selected panics in Vec::remove when the index is out of range.
delete_selected_panics(f) ==
    /\ ~(Len(f.folders) = 0 /\ Len(f.tasks) = 0)
    /\ f.selected >= Len(f.folders)
    /\ f.selected - Len(f.folders) >= Len(f.tasks)

\* Mutant of get_selected_task: the cursor is taken as an index into tasks,
\* without the subfolders before them.
get_selected_task_no_offset(f) ==
    IF Len(f.folders) = 0 /\ Len(f.tasks) = 0 THEN <<>>
    ELSE IF f.selected < Len(f.tasks) THEN <<f.selected + 1>>
    ELSE <<>>

\* get_selected_task: <<>> is None, <<i>> is Some(&mut tasks[i]) (i is 1-based).
get_selected_task(f) ==
    IF Len(f.folders) = 0 /\ Len(f.tasks) = 0 THEN <<>>
    ELSE IF f.selected < Len(f.folders) THEN <<>>
    ELSE IF f.selected - Len(f.folders) < Len(f.tasks)
         THEN <<f.selected - Len(f.folders) + 1>>
         ELSE <<>>

\* get_selected_folder: <<>> is None, <<i>> is Some(&mut folders[i]) (i is 1-based).
get_selected_folder(f) ==
    IF f.selected >= Len(f.folders) THEN <<>> ELSE <<f.selected + 1>>

\* Mutant of FirstMatch: the last subfolder of that name is taken.
FirstMatch_takes_last(f, item) ==
    LET hits == {i \in 1..Len(f.folders) : f.folders[i].name = item}
    IN  IF hits = {} THEN 0 ELSE CHOOSE i \in hits : \A j \in hits : i >= j

\* The first subfolder, in storage order, whose name is `item`; 0 when there is none.
FirstMatch(f, item) ==
    LET hits == {i \in 1..Len(f.folders) : f.folders[i].name = item}
    IN  IF hits = {} THEN 0 ELSE CHOOSE i \in hits : \A j \in hits : i <= j

\* get_folder: [ok |-> TRUE, folder] or [ok |-> FALSE, item] (the Err names `item`).
RECURSIVE get_folder(_, _)
get_folder(f, path) ==
    IF path = <<>> THEN [ok |-> TRUE, folder |-> f, item |-> <<>>]
    ELSE LET i == FirstMatch(f, Head(path))
         IN  IF i = 0 THEN [ok |-> FALSE, folder |-> f, item |-> Head(path)]
             ELSE get_folder(f.folders[i], Tail(path))

\* The tree after a write through the &mut Folder that get_folder(path) returned.
RECURSIVE PutFolder(_, _, _)
PutFolder(f, path, g) ==
    IF path = <<>> THEN g
    ELSE LET i == FirstMatch(f, Head(path))
         IN  [f EXCEPT !.folders[i] = PutFolder(@, Tail(path), g)]

\* Entries below f, over all levels.
RECURSIVE Size(_)
SumSizes(fs) ==
    LET RECURSIVE Sum(_)
        Sum(k) == IF k = 0 THEN 0 ELSE 1 + Size(fs[k]) + Sum(k - 1)
    IN  Sum(Len(fs))
Size(f) == Len(f.tasks) + SumSizes(f.folders)

------------------------------------------------------------------------------
(* serde: `selected` is skipped when serializing and defaults to 0.          *)

\* Mutant of Serialize: the cursor is written like every other field.
RECURSIVE Serialize_keeps_cursor(_)
Serialize_keeps_cursor(f) ==
    [name |-> f.name, tasks |-> f.tasks,
     folders |-> [i \in 1..Len(f.folders) |-> Serialize_keeps_cursor(f.folders[i])],
     selected |-> f.selected]

RECURSIVE Serialize(_)
Serialize(f) ==
    [name |-> f.name, tasks |-> f.tasks,
     folders |-> [i \in 1..Len(f.folders) |-> Serialize(f.folders[i])]]

RECURSIVE Deserialize(_)
Deserialize(j) ==
    [name |-> j.name, tasks |-> j.tasks,
     folders |-> [i \in 1..Len(j.folders) |-> Deserialize(j.folders[i])],
     selected |-> IF "selected" \in DOMAIN j THEN j.selected ELSE 0]

\* The store file: absent, present and unreadable, present and not JSON of a
\* Folder, or present with the JSON of a Folder.
Absent == [state |-> "absent", data |-> <<>>]
Unreadable == [state |-> "unreadable", data |-> <<>>]
Corrupt == [state |-> "corrupt", data |-> <<>>]
Json(j) == [state |-> "ok", data |-> <<j>>]

------------------------------------------------------------------------------
(* Text: u8 parsing, upper-casing and the line editor.                       *)

Digits == {"0", "1", "2", "3", "4", "5", "6", "7", "8", "9"}

DigitVal(c) ==
    CASE c = "0" -> 0 [] c = "1" -> 1 [] c = "2" -> 2 [] c = "3" -> 3 [] c = "4" -> 4
      [] c = "5" -> 5 [] c = "6" -> 6 [] c = "7" -> 7 [] c = "8" -> 8 [] c = "9" -> 9

\* Mutant of ParseDigits: the value wraps at the width of u8 instead of failing.
RECURSIVE ParseDigits_wraps(_, _)
ParseDigits_wraps(s, acc) ==
    IF s = <<>> THEN [ok |-> TRUE, val |-> acc]
    ELSE IF Head(s) \notin Digits THEN [ok |-> FALSE, val |-> 0]
    ELSE ParseDigits_wraps(Tail(s), (acc * 10 + DigitVal(Head(s))) % (U8Max + 1))

\* str::parse::<u8>: Err on the empty string, on a lone sign, on any character
\* that is no decimal digit (a leading '+' is skipped, a '-' is not, u8 being
\* unsigned) and on a value above u8::MAX.
RECURSIVE ParseDigits(_, _)
ParseDigits(s, acc) ==
    IF s = <<>> THEN [ok |-> TRUE, val |-> acc]
    ELSE IF Head(s) \notin Digits THEN [ok |-> FALSE, val |-> 0]
    ELSE LET v == acc * 10 + DigitVal(Head(s))
         IN  IF v > U8Max THEN [ok |-> FALSE, val |-> 0]
             ELSE ParseDigits(Tail(s), v)

ParseU8(s) ==
    IF s = <<>> THEN [ok |-> FALSE, val |-> 0]
    ELSE IF Len(s) = 1 /\ Head(s) \in {"+", "-"} THEN [ok |-> FALSE, val |-> 0]
    ELSE IF Head(s) = "+" THEN ParseDigits(Tail(s), 0)
    ELSE ParseDigits(s, 0)

\* char::to_uppercase on the characters the model types.
UpperChar(c) ==
    CASE c = "y" -> "Y" [] c = "n" -> "N" [] c = "a" -> "A" [] c = "b" -> "B"
      [] OTHER -> c

\* Mutant of ToUppercase: the text is compared as typed.
ToUppercase_as_typed(s) == s

\* str::to_uppercase
ToUppercase(s) == [i \in 1..Len(s) |-> UpperChar(s[i])]

\* KeyCode values that are no KeyCode::Char.
SpecialKeys == {"Down", "Up", "Left", "Right", "Tab", "Enter", "Esc", "Backspace"}

\* tui_input's handle_event on the Input's value: a character is inserted,
\* Backspace deletes the character before the cursor, any other key keeps the
\* value. The cursor stays at the end (with_value puts it there).
HandleEvent(value, key) ==
    IF key = "Backspace"
    THEN IF value = <<>> THEN value ELSE SubSeq(value, 1, Len(value) - 1)
    ELSE IF key \in SpecialKeys THEN value
    ELSE Append(value, key)

\* The texts on the way to one of `texts`, typed a character at a time.
Prefixes(texts) == UNION {{SubSeq(t, 1, n) : n \in 0..Len(t)} : t \in texts}

\* The keys that type `texts`, and the keys that edit without typing.
TypeKeys(texts) == UNION {{t[i] : i \in 1..Len(t)} : t \in texts} \cup {"Backspace", "Left"}

------------------------------------------------------------------------------
(* InputStatus and InputRequestType (main.rs).                               *)

Empty == [kind |-> "Empty", req |-> "-", step |-> "-"]
Controls == [kind |-> "Controls", req |-> "-", step |-> "-"]
New == [kind |-> "New", req |-> "-", step |-> "-"]
Edit == [kind |-> "Edit", req |-> "-", step |-> "-"]
Request(req, step) == [kind |-> "Request", req |-> req, step |-> step]

\* The folder the loop works on: folder.get_folder(selected.clone())
CurResult == get_folder(folder, selected)
cur_folder == CurResult.folder

\* Mutant of SetCur: the write lands on the root of the tree.
SetCur_at_root(g) == g

\* A write through cur_folder.
SetCur(g) == PutFolder(folder, selected, g)

\* The state after `panic!`: the process is gone, nothing else moves.
Panic ==
    /\ pc' = "panic"
    /\ UNCHANGED <<home, file, folder, selected, input_status, input, temp_task, selected_tab>>

------------------------------------------------------------------------------
(* Folder::read_or_create and Folder::save.                                  *)

\* Mutant of read_or_create: a store that does not parse is replaced by a
\* fresh tree.
read_or_create_resets ==
    /\ pc = "boot"
    /\ UNCHANGED <<process, home, selected, input_status, input, temp_task, selected_tab>>
    /\ IF ~home
       THEN pc' = "err" /\ UNCHANGED <<file, folder>>
       ELSE IF file.state = "ok"
       THEN pc' = "run" /\ folder' = Deserialize(file.data[1]) /\ UNCHANGED file
       ELSE /\ pc' = "run"
            /\ file' = Json(Serialize(DefaultFolder))
            /\ folder' = DefaultFolder

\* run, up to the loop: read_or_create()?, then the locals.
read_or_create ==
    /\ pc = "boot"
    /\ UNCHANGED process
    /\ UNCHANGED <<home, selected, input_status, input, temp_task, selected_tab>>
    /\ IF ~home
       THEN pc' = "err" /\ UNCHANGED <<file, folder>>
       ELSE IF file.state \in {"ok", "corrupt"}
       THEN \* read_to_string is Ok: serde_json::from_str(&data)?
            IF file.state = "ok"
            THEN pc' = "run" /\ folder' = Deserialize(file.data[1]) /\ UNCHANGED file
            ELSE pc' = "err" /\ UNCHANGED <<file, folder>>
       ELSE \* read_to_string is Err: write the default folder
            \E written \in BOOLEAN :
                IF written
                THEN /\ pc' = "run"
                     /\ file' = Json(Serialize(DefaultFolder))
                     /\ folder' = DefaultFolder
                ELSE pc' = "err" /\ UNCHANGED <<file, folder>>

\* folder.save()?: the file after fs::write, and whether it returned Ok. A failed
\* write leaves the old contents or a truncated file.
SaveOutcomes ==
    IF ~home THEN {[ok |-> TRUE, file |-> file]}
    ELSE {[ok |-> TRUE, file |-> Json(Serialize(folder))],
          [ok |-> FALSE, file |-> file],
          [ok |-> FALSE, file |-> Corrupt]}

------------------------------------------------------------------------------
(* The loop of run: one action per arm of `match input_status`. Each is one  *)
(* iteration: get_folder(selected).unwrap(), the draw, then the key.         *)

\* One iteration whose key handling is `body`: the unwrap at its top panics when
\* the path does not resolve.
Iteration(body) ==
    /\ pc = "run"
    /\ UNCHANGED process
    /\ IF CurResult.ok THEN body ELSE Panic

\* Mutant of IdleKey: Left goes back to the root.
IdleKey_left_to_root(key) ==
    /\ input_status = Empty
    /\ Iteration(
         IF key \in {"Down", "Up"} /\ adjust_selected_panics(cur_folder)
         THEN Panic
         ELSE /\ pc' = pc
              /\ input_status' = IF key = " " THEN Controls ELSE input_status
              /\ folder' = CASE key = "Down" -> SetCur(adjust_selected(cur_folder, 1))
                             [] key = "Up" -> SetCur(adjust_selected(cur_folder, -1))
                             [] OTHER -> folder
              /\ selected' =
                    CASE key = "Right" ->
                           IF get_selected_folder(cur_folder) # <<>>
                           THEN Append(selected,
                                       cur_folder.folders[get_selected_folder(cur_folder)[1]].name)
                           ELSE selected
                      [] key = "Left" ->
                           IF selected = <<>> THEN selected
                           ELSE <<>>
                      [] OTHER -> selected
              /\ selected_tab' = IF key = "Tab" THEN (selected_tab + 1) % NumTabs
                                 ELSE selected_tab
              /\ UNCHANGED <<home, file, input, temp_task>>)

\* InputStatus::Empty
IdleKey(key) ==
    /\ input_status = Empty
    /\ Iteration(
         IF key \in {"Down", "Up"} /\ adjust_selected_panics(cur_folder)
         THEN Panic
         ELSE /\ pc' = pc
              /\ input_status' = IF key = " " THEN Controls ELSE input_status
              /\ folder' = CASE key = "Down" -> SetCur(adjust_selected(cur_folder, 1))
                             [] key = "Up" -> SetCur(adjust_selected(cur_folder, -1))
                             [] OTHER -> folder
              /\ selected' =
                    CASE key = "Right" ->
                           IF get_selected_folder(cur_folder) # <<>>
                           THEN Append(selected,
                                       cur_folder.folders[get_selected_folder(cur_folder)[1]].name)
                           ELSE selected
                      [] key = "Left" ->
                           IF selected = <<>> THEN selected
                           ELSE SubSeq(selected, 1, Len(selected) - 1)
                      [] OTHER -> selected
              /\ selected_tab' = IF key = "Tab" THEN (selected_tab + 1) % NumTabs
                                 ELSE selected_tab
              /\ UNCHANGED <<home, file, input, temp_task>>)

\* InputStatus::Controls
ControlsKey(key) ==
    /\ input_status = Controls
    /\ Iteration(
         /\ UNCHANGED <<home, folder, selected, input, temp_task, selected_tab>>
         /\ CASE key = "q" -> pc' = "quit" /\ UNCHANGED <<file, input_status>>
              [] key = "n" -> pc' = pc /\ input_status' = New /\ UNCHANGED file
              [] key = "e" ->
                   /\ pc' = pc
                   /\ input_status' = IF get_selected_folder(cur_folder) # <<>>
                                      THEN Request("RenameFolder", "-")
                                      ELSE Edit
                   /\ UNCHANGED file
              [] key = "w" ->
                   \E out \in SaveOutcomes :
                       /\ file' = out.file
                       /\ IF out.ok
                          THEN pc' = pc /\ input_status' = Empty
                          ELSE pc' = "err" /\ UNCHANGED input_status
              [] key = "d" ->
                   pc' = pc /\ input_status' = Request("ConfirmDelete", "-") /\ UNCHANGED file
              [] OTHER -> pc' = pc /\ input_status' = Empty /\ UNCHANGED file)

\* InputStatus::New
NewKey(key) ==
    /\ input_status = New
    /\ Iteration(
         /\ pc' = pc
         /\ input_status' = CASE key = "f" -> Request("NewFolder", "-")
                              [] key = "t" -> Request("NewTask", "Title")
                              [] OTHER -> Empty
         /\ UNCHANGED <<home, file, folder, selected, input, temp_task, selected_tab>>)

\* Mutant of EditKey: 't' and 'd' ask for the other field.
EditKey_swapped(key) ==
    /\ input_status = Edit
    /\ Iteration(
         /\ pc' = pc
         /\ input_status' = CASE key = "t" -> Request("EditTask", "Details")
                              [] key = "d" -> Request("EditTask", "Title")
                              [] key = "s" -> Request("EditTask", "Status")
                              [] OTHER -> Empty
         /\ UNCHANGED <<home, file, folder, selected, input, temp_task, selected_tab>>)

\* InputStatus::Edit
EditKey(key) ==
    /\ input_status = Edit
    /\ Iteration(
         /\ pc' = pc
         /\ input_status' = CASE key = "t" -> Request("EditTask", "Title")
                              [] key = "d" -> Request("EditTask", "Details")
                              [] key = "s" -> Request("EditTask", "Status")
                              [] OTHER -> Empty
         /\ UNCHANGED <<home, file, folder, selected, input, temp_task, selected_tab>>)

\* Mutant of RequestEsc: leaving a prompt saves the tree.
RequestEsc_saves ==
    /\ input_status.kind = "Request"
    /\ pc = "run"
    /\ pc' = pc
    /\ UNCHANGED process
    /\ input' = <<>>
    /\ input_status' = Empty
    /\ file' = Json(Serialize(folder))
    /\ UNCHANGED <<home, folder, selected, temp_task, selected_tab>>

\* Mutant of RequestEsc: the typed text is kept for the next prompt.
RequestEsc_keeps_text ==
    /\ input_status.kind = "Request"
    /\ pc = "run"
    /\ pc' = pc
    /\ UNCHANGED process
    /\ input_status' = Empty
    /\ UNCHANGED <<home, file, folder, selected, input, temp_task, selected_tab>>

\* Mutant of RequestEsc: leaving a prompt puts the pending task back to the
\* default task.
RequestEsc_resets_task ==
    /\ input_status.kind = "Request"
    /\ pc = "run"
    /\ pc' = pc
    /\ UNCHANGED process
    /\ input' = <<>>
    /\ input_status' = Empty
    /\ temp_task' = DefaultTask
    /\ UNCHANGED <<home, file, folder, selected, selected_tab>>

\* InputStatus::Request(_), KeyCode::Esc
RequestEsc ==
    /\ input_status.kind = "Request"
    /\ Iteration(
         /\ pc' = pc
         /\ input' = <<>>
         /\ input_status' = Empty
         /\ UNCHANGED <<home, file, folder, selected, temp_task, selected_tab>>)

\* cur_folder after `if let Some(cur_task) = cur_folder.get_selected_task() { edit }`
EditSelectedTask(f, field, value) ==
    IF get_selected_task(f) = <<>> THEN f
    ELSE LET i == get_selected_task(f)[1]
         IN  CASE field = "title" -> [f EXCEPT !.tasks[i].title = value]
               [] field = "task" -> [f EXCEPT !.tasks[i].task = value]
               [] field = "status" -> [f EXCEPT !.tasks[i].status.status = value]
               [] field = "color" -> [f EXCEPT !.tasks[i].status.color = value]

\* cur_folder after `if let Some(folder) = cur_folder.get_selected_folder() { rename }`
RenameSelectedFolder(f, name) ==
    IF get_selected_folder(f) = <<>> THEN f
    ELSE [f EXCEPT !.folders[get_selected_folder(f)[1]].name = name]

\* The StatusColor arm: the color is set only when the text parses as a u8.
SetColor(f, text) ==
    IF ParseU8(text).ok THEN EditSelectedTask(f, "color", ParseU8(text).val) ELSE f

\* The ConfirmDelete arm.
ConfirmDelete(f, text) ==
    IF ToUppercase(text) = <<"Y">> THEN delete_selected(f) ELSE f

\* Mutant of StashTask: the Details step starts again from a default task.
StashTask_drops_title(t, step, text) ==
    CASE step = "Title" -> [t EXCEPT !.title = text]
      [] step = "Details" -> [DefaultTask EXCEPT !.task = text]
      [] OTHER -> t

\* temp_task after Enter in the NewTask chain.
StashTask(t, step, text) ==
    CASE step = "Title" -> [t EXCEPT !.title = text]
      [] step = "Details" -> [t EXCEPT !.task = text]
      [] OTHER -> t

\* cur_folder after Enter, by request.
CommitFolder(f, req, step, text, pending) ==
    CASE req = "NewFolder" -> new_folder(f, text)
      [] req = "RenameFolder" -> RenameSelectedFolder(f, text)
      [] req = "NewTask" ->
           IF step = "Details" THEN new_task(f, StashTask(pending, step, text)) ELSE f
      [] req = "EditTask" ->
           (CASE step = "Title" -> EditSelectedTask(f, "title", text)
              [] step = "Details" -> EditSelectedTask(f, "task", text)
              [] step = "Status" -> EditSelectedTask(f, "status", text)
              [] step = "StatusColor" -> SetColor(f, text))
      [] req = "ConfirmDelete" -> ConfirmDelete(f, text)

\* Mutant of CommitStatus: the NewTask chain goes on to ask for a status.
CommitStatus_asks_status(st) ==
    CASE st.req = "NewTask" /\ st.step = "Title" -> Request("NewTask", "Details")
      [] st.req = "NewTask" /\ st.step = "Details" -> Request("NewTask", "Status")
      [] st.req = "NewTask" /\ st.step \in {"Status", "StatusColor"} -> st
      [] st.req = "EditTask" /\ st.step = "Status" -> Request("EditTask", "StatusColor")
      [] OTHER -> Empty

\* input_status after Enter, by request.
CommitStatus(st) ==
    CASE st.req = "NewTask" /\ st.step = "Title" -> Request("NewTask", "Details")
      [] st.req = "NewTask" /\ st.step \in {"Status", "StatusColor"} -> st
      [] st.req = "EditTask" /\ st.step = "Status" -> Request("EditTask", "StatusColor")
      [] OTHER -> Empty

\* Enter adds an entry to the tree.
Grows(st) == st.req = "NewFolder" \/ (st.req = "NewTask" /\ st.step = "Details")

\* Mutant of RequestEnter: the buffer is not emptied after the match.
RequestEnter_keeps_text(maxEntries) ==
    /\ input_status.kind = "Request"
    /\ Grows(input_status) => Size(folder) < maxEntries
    /\ Iteration(
         IF input_status.req = "ConfirmDelete" /\ ToUppercase(input) = <<"Y">>
            /\ delete_selected_panics(cur_folder)
         THEN Panic
         ELSE /\ pc' = pc
              /\ folder' = SetCur(CommitFolder(cur_folder, input_status.req,
                                               input_status.step, input, temp_task))
              /\ temp_task' = IF input_status.req = "NewTask"
                              THEN StashTask(temp_task, input_status.step, input)
                              ELSE temp_task
              /\ input_status' = CommitStatus(input_status)
              /\ input' = input
              /\ UNCHANGED <<home, file, selected, selected_tab>>)

\* InputStatus::Request(request), KeyCode::Enter
RequestEnter(maxEntries) ==
    /\ input_status.kind = "Request"
    /\ Grows(input_status) => Size(folder) < maxEntries
    /\ Iteration(
         IF input_status.req = "ConfirmDelete" /\ ToUppercase(input) = <<"Y">>
            /\ delete_selected_panics(cur_folder)
         THEN Panic
         ELSE /\ pc' = pc
              /\ folder' = SetCur(CommitFolder(cur_folder, input_status.req,
                                               input_status.step, input, temp_task))
              /\ temp_task' = IF input_status.req = "NewTask"
                              THEN StashTask(temp_task, input_status.step, input)
                              ELSE temp_task
              /\ input_status' = CommitStatus(input_status)
              /\ input' = <<>>
              /\ UNCHANGED <<home, file, selected, selected_tab>>)

\* InputStatus::Request(_), any other key: input.handle_event
RequestType(key, texts) ==
    /\ input_status.kind = "Request"
    /\ key \notin {"Enter", "Esc"}
    /\ HandleEvent(input, key) \in Prefixes(texts)
    /\ Iteration(
         /\ pc' = pc
         /\ input' = HandleEvent(input, key)
         /\ UNCHANGED <<home, file, folder, selected, input_status, temp_task, selected_tab>>)

------------------------------------------------------------------------------
(* Specifications: the program under a set of initial store files, a set of  *)
(* keys pressed in the menus and a set of keys typed into the prompts.       *)

\* main, after run has returned or panicked: restore_terminal, the error
\* printed in the Err arm, and the status the process ends with. main returns
\* Ok(()) in both arms; a panic ends the process where it happens, with the
\* terminal still raw.
main_exit ==
    /\ pc \in {"quit", "err", "panic"}
    /\ pc' = "exited"
    /\ process' = CASE pc = "quit" ->
                         [terminal |-> "restored", stderr |-> "", status |-> 0]
                    [] pc = "err" ->
                         [terminal |-> "restored", stderr |-> "error", status |-> 0]
                    [] pc = "panic" ->
                         [terminal |-> "raw", stderr |-> "panic", status |-> 101]
    /\ UNCHANGED <<home, file, folder, selected, input_status, input, temp_task, selected_tab>>

InitOn(files) ==
    /\ pc = "boot"
    /\ process = [terminal |-> "raw", stderr |-> "", status |-> -1]
    /\ home \in BOOLEAN
    /\ file \in files
    /\ folder = DefaultFolder
    /\ selected = <<>>
    /\ input_status = Empty
    /\ input = <<>>
    /\ temp_task = DefaultTask
    /\ selected_tab = 0

NextOn(menuKeys, texts, maxEntries) ==
    \/ read_or_create
    \/ \E key \in menuKeys : IdleKey(key)
    \/ \E key \in menuKeys : ControlsKey(key)
    \/ \E key \in menuKeys : NewKey(key)
    \/ \E key \in menuKeys : EditKey(key)
    \/ RequestEsc
    \/ RequestEnter(maxEntries)
    \/ \E key \in TypeKeys(texts) : RequestType(key, texts)
    \/ main_exit

\* Every key the menus and the Idle state tell apart, and one they do not.
MenuKeys == {"Down", "Up", "Left", "Right", "Tab", " ", "q", "n", "e", "w", "d",
             "f", "t", "s", "x"}

\* A folder and a task beside it, as a saved store.
SampleStore ==
    Json([name |-> <<>>,
          tasks |-> <<[title |-> <<"Y">>, task |-> <<>>, status |-> DefaultStatus]>>,
          folders |-> <<[name |-> <<"Y">>, tasks |-> <<>>, folders |-> <<>>]>>])

Files == {Absent, Unreadable, Corrupt, SampleStore}

\* What the user types into a prompt.
Texts == {<<>>, <<"Y">>}

\* Spec: navigating, creating, renaming, editing title and details, deleting.
Init == InitOn(Files)

Next == NextOn(MenuKeys \ {"w", "Tab", "s"}, Texts, MaxEntries)

Spec == Init /\ [][Next]_vars

\* SpecPrompt: every prompt, the status prompts included, from a saved store.
SpecPrompt ==
    InitOn({SampleStore}) /\ [][NextOn(MenuKeys \ {"w", "Tab"}, Texts, MaxEntries)]_vars

\* SpecColor: editing the status of a task, with texts that are and are not a u8.
ColorTexts == {<<"9">>, <<"0", "7">>, <<"2", "5", "5">>, <<"2", "5", "6">>,
               <<"+", "7">>, <<"-", "1">>, <<"a">>}

SpecColor ==
    InitOn({SampleStore})
      /\ [][NextOn({"Down", "Up", " ", "q", "n", "e", "s", "x"}, ColorTexts, MaxEntries)]_vars

\* SpecDelete: deleting from a store with a nested folder, with answers that are
\* and are not a yes.
DeleteStore ==
    Json([name |-> <<>>,
          tasks |-> <<[title |-> <<"Y">>, task |-> <<>>, status |-> DefaultStatus]>>,
          folders |-> <<[name |-> <<"Y">>,
                         tasks |-> <<[title |-> <<>>, task |-> <<>>, status |-> DefaultStatus]>>,
                         folders |-> <<>>]>>])

DeleteTexts == {<<"Y">>, <<"y">>, <<"n">>, <<"Y", "y">>}

SpecDelete ==
    InitOn({DeleteStore})
      /\ [][NextOn({"Down", "Up", "Left", "Right", " ", "q", "n", "e", "d", "x"},
                   DeleteTexts, MaxEntries)]_vars

\* SpecResolve: a store with two subfolders of one name, the first of them
\* holding a subfolder of that name again.
DupStore ==
    Json([name |-> <<>>,
          tasks |-> <<>>,
          folders |-> <<[name |-> <<"Y">>,
                         tasks |-> <<>>,
                         folders |-> <<[name |-> <<"Y">>, tasks |-> <<>>, folders |-> <<>>]>>],
                        [name |-> <<"Y">>, tasks |-> <<>>, folders |-> <<>>]>>])

SpecResolve ==
    InitOn({DupStore})
      /\ [][NextOn(MenuKeys \ {"w", "Tab", "s"}, Texts, MaxEntries)]_vars

\* SpecSave: every key, the save key included, with nothing typed.
SpecSave == InitOn(Files) /\ [][NextOn(MenuKeys, {<<>>}, MaxEntries)]_vars

------------------------------------------------------------------------------
(* Properties of the folder tree.                                            *)

\* Every folder of the tree below and including f.
RECURSIVE Folders(_)
Folders(f) == {f} \cup UNION {Folders(f.folders[i]) : i \in 1..Len(f.folders)}

CursorOk(f) ==
    IF Total(f) > 0 THEN f.selected \in 0..(Total(f) - 1) ELSE f.selected = 0

\* C1: in every reachable state, every folder's cursor is in [0, total-1] when
\* total > 0 and is 0 when total = 0.
C1_CursorBound == \A f \in Folders(folder) : CursorOk(f)

\* C1 witness: the cursor was moved to the last of two entries.
C1_Witness ==
    /\ pc = "run"
    /\ Total(folder) = 2
    /\ folder.selected = 1

\* C2: moveSelection on a folder with total = 0 completes normally and leaves
\* the cursor at 0, for the Down and Up keys in Idle too.
C2_EmptyMoveCompletes ==
    [][(/\ pc = "run"
        /\ input_status = Empty
        /\ CurResult.ok
        /\ Total(cur_folder) = 0)
       => (pc' = "run" /\ get_folder(folder', selected').folder.selected = 0)]_vars

\* C3: in every folder of every reachable state, selectedFolder and
\* selectedTask are never both defined, exactly one is defined when total > 0
\* and neither when total = 0.
C3_Partition ==
    \A f \in Folders(folder) :
        LET sf == get_selected_folder(f) # <<>>
            st == get_selected_task(f) # <<>>
        IN  /\ ~(sf /\ st)
            /\ Total(f) > 0 => (sf \/ st)
            /\ Total(f) = 0 => (~sf /\ ~st)

\* C3 witness: the cursor is on a task that follows a subfolder in the listing.
C3_Witness ==
    /\ pc = "run"
    /\ Len(folder.folders) > 0
    /\ get_selected_task(folder) # <<>>
    /\ get_selected_folder(folder) = <<>>

\* C4: deleteSelected on a folder with total > 0 reduces total by exactly 1 and
\* leaves the cursor within [0, max(0, total'-1)]; with total = 0 it changes
\* nothing. Stated of every folder of every reachable state.
C4_DeleteShrinks ==
    \A f \in Folders(folder) :
        LET g == delete_selected(f)
        IN  /\ Total(f) > 0 => (Total(g) = Total(f) - 1 /\ CursorOk(g))
            /\ Total(f) = 0 => g = f

\* C4 witness: an entry of the loaded store was deleted with the cursor on the
\* last entry.
C4_Witness ==
    /\ pc = "run"
    /\ file = SampleStore
    /\ Total(folder) = 1
    /\ input_status = Empty

\* The current folder after the step.
cur_folder_next == get_folder(folder', selected').folder

\* C5: addFolder(name) appends a folder {name, no tasks, no subfolders, cursor
\* 0} as the last of subfolders and addTask(task) appends the task as the last
\* of tasks; every other entry keeps its place, addTask leaves the cursor
\* alone, and the new entry is the one selected at listing index
\* len(subfolders)-1 (folder) or len(subfolders)+len(tasks)-1 (task).
C5_AppendPlacement ==
    [][/\ (RequestEnter(MaxEntries) /\ input_status.req = "NewFolder") =>
            LET g == cur_folder_next
            IN  /\ g = [cur_folder EXCEPT !.folders =
                          Append(@, [name |-> input, tasks |-> <<>>,
                                     folders |-> <<>>, selected |-> 0])]
                /\ folder' = PutFolder(folder, selected, g)
                /\ get_selected_folder([g EXCEPT !.selected = Len(g.folders) - 1])
                     = <<Len(cur_folder.folders) + 1>>
       /\ (RequestEnter(MaxEntries) /\ input_status = Request("NewTask", "Details")) =>
            LET g == cur_folder_next
            IN  /\ Len(g.tasks) = Len(cur_folder.tasks) + 1
                /\ g = [cur_folder EXCEPT !.tasks = Append(@, g.tasks[Len(g.tasks)])]
                /\ g.selected = cur_folder.selected
                /\ folder' = PutFolder(folder, selected, g)
                /\ get_selected_task([g EXCEPT !.selected = Len(g.folders) + Len(g.tasks) - 1])
                     = <<Len(cur_folder.tasks) + 1>>]_vars

\* C5 witness: a folder named "Y" was added after a folder with the empty name.
C5_Witness ==
    /\ pc = "run"
    /\ Len(folder.folders) = 2
    /\ folder.folders[1].name = <<>>
    /\ folder.folders[2].name = <<"Y">>

------------------------------------------------------------------------------
(* Properties of the prompts.                                                *)

\* C6: Enter at NewTask{Title} with buffer T goes to NewTask{Details} and adds
\* no task; the pending title stays T until the next Enter; Enter at
\* NewTask{Details} with buffer B appends exactly the task {T, B,
\* {"Incomplete", 5}} to the current folder and goes to Idle.
C6_NewTaskFlow ==
    [][/\ (RequestEnter(MaxEntries) /\ input_status = Request("NewTask", "Title")) =>
            /\ input_status' = Request("NewTask", "Details")
            /\ folder' = folder
            /\ temp_task'.title = input
       /\ (input_status = Request("NewTask", "Details")
           /\ input_status' = Request("NewTask", "Details")) =>
            temp_task' = temp_task
       /\ (RequestEnter(MaxEntries) /\ input_status = Request("NewTask", "Details")) =>
            /\ input_status' = Empty
            /\ folder' = PutFolder(folder, selected,
                            [cur_folder EXCEPT !.tasks =
                                Append(@, [title |-> temp_task.title, task |-> input,
                                           status |-> [status |-> <<"I","n","c","o","m","p","l","e","t","e">>,
                                                       color |-> 5]])])]_vars

\* C6 witness: a second task, with another title and body, was added after a
\* first NewTask flow.
C6_Witness ==
    /\ pc = "run"
    /\ input_status = Empty
    /\ Len(folder.tasks) = 2
    /\ folder.tasks[1].title = <<"Y">>
    /\ folder.tasks[2] = [title |-> <<>>, task |-> <<"Y">>, status |-> DefaultStatus]

\* The value of a text of decimal digits, from its last digit.
RECURSIVE DecimalValue(_)
DecimalValue(s) ==
    IF s = <<>> THEN 0
    ELSE DecimalValue(SubSeq(s, 1, Len(s) - 1)) * 10 + DigitVal(s[Len(s)])

\* The digits of a text that may start with a plus sign.
Unsigned(s) == IF s # <<>> /\ s[1] = "+" THEN Tail(s) ELSE s

\* The text is an integer 0..255: decimal digits, at least one, after an
\* optional plus sign.
IsU8Text(s) ==
    /\ Unsigned(s) # <<>>
    /\ \A i \in 1..Len(Unsigned(s)) : Unsigned(s)[i] \in Digits
    /\ DecimalValue(Unsigned(s)) <= 255

\* C7: Enter at EditTask{StatusColor} with a task selected sets that task's
\* color to the buffer's value when the buffer is an integer 0..255, changes
\* nothing in the tree when it is not, and goes to Idle in both cases.
C7_StatusColor ==
    [][(/\ RequestEnter(MaxEntries)
        /\ input_status = Request("EditTask", "StatusColor")
        /\ get_selected_task(cur_folder) # <<>>)
       => /\ input_status' = Empty
          /\ IF IsU8Text(input)
             THEN folder' = PutFolder(folder, selected,
                              [cur_folder EXCEPT
                                 !.tasks[get_selected_task(cur_folder)[1]].status.color =
                                     DecimalValue(Unsigned(input))])
             ELSE folder' = folder]_vars

\* C7 witness: the color was set to 255 and a text that is no u8 is about to
\* be committed at the StatusColor step.
C7_Witness ==
    /\ pc = "run"
    /\ input_status = Request("EditTask", "StatusColor")
    /\ input = <<"2", "5", "6">>
    /\ get_selected_task(cur_folder) # <<>>
    /\ cur_folder.tasks[get_selected_task(cur_folder)[1]].status.color = 255

\* C8: Esc in any prompt clears the buffer, goes to Idle and leaves the tree
\* and the current path unchanged.
C8_EscAborts ==
    [][RequestEsc => (/\ input' = <<>>
                      /\ input_status' = Empty
                      /\ folder' = folder
                      /\ selected' = selected)]_vars

\* C8 witness: a prompt of the second step of a chain, inside a subfolder, with
\* text typed.
C8_Witness ==
    /\ pc = "run"
    /\ input_status = Request("NewTask", "Details")
    /\ input = <<"Y">>
    /\ selected # <<>>
    /\ temp_task.title = <<"Y">>

\* C9: Enter at ConfirmDelete calls deleteSelected on the current folder iff the
\* buffer is "Y" or "y"; for any other buffer the tree is unchanged; the wizard
\* goes to Idle in both cases.
C9_ConfirmDelete ==
    [][(RequestEnter(MaxEntries) /\ input_status = Request("ConfirmDelete", "-"))
       => /\ input_status' = Empty
          /\ IF input \in {<<"Y">>, <<"y">>}
             THEN folder' = PutFolder(folder, selected, delete_selected(cur_folder))
             ELSE folder' = folder]_vars

\* C9 witness: a lower-case yes is about to be committed inside a subfolder
\* that has an entry.
C9_Witness ==
    /\ pc = "run"
    /\ input_status = Request("ConfirmDelete", "-")
    /\ input = <<"y">>
    /\ selected # <<>>
    /\ Total(cur_folder) > 0

\* C10: once load has returned, the store file changes only by the 'w' key in
\* the help overlay; no other key in any state, and not quitting, writes it.
C10_OnlySaveWrites ==
    [][(pc = "run" /\ file' # file) => (input_status = Controls /\ ControlsKey("w"))]_vars

\* C10 witness: the tree was saved, then changed, and the session was quit.
C10_Witness ==
    /\ pc = "quit"
    /\ file.state = "ok"
    /\ Len(file.data[1].folders) = 1
    /\ Len(folder.folders) = 2

------------------------------------------------------------------------------
(* Properties of the store and of the process.                               *)

\* C11: load of an absent store returns a tree that is only an empty root and
\* has written that tree to the store (or fails on the write, the file left as
\* it was); load of a store that does not parse fails, returns no tree and
\* leaves the file as it is.
C11_LoadAbsentOrCorrupt ==
    [][/\ (read_or_create /\ home /\ file = Absent) =>
            \/ /\ pc' = "run"
               /\ folder' = [name |-> <<>>, tasks |-> <<>>, folders |-> <<>>, selected |-> 0]
               /\ file' = Json([name |-> <<>>, tasks |-> <<>>, folders |-> <<>>])
            \/ pc' = "err" /\ file' = file
       /\ (read_or_create /\ home /\ file = Corrupt) =>
            (pc' = "err" /\ file' = file /\ folder' = folder)]_vars

\* C11 witness: the session runs on the empty root written for an absent store.
C11_Witness ==
    /\ pc = "run"
    /\ folder = DefaultFolder
    /\ file = Json(Serialize(DefaultFolder))
    /\ input_status = Empty

\* C12: a store file that is present and cannot be read makes load fail; load
\* writes a fresh tree only when the file is absent.
C12_UnreadableIsFatal ==
    [][(read_or_create /\ file = Unreadable) => (pc' = "err" /\ file' = file)]_vars

\* C13: quitting with 'q' ends the process with status 0; a fatal error of run
\* is printed after the terminal is restored and the process ends with a
\* status other than 0.
C13_ExitStatus ==
    pc = "exited" =>
        /\ process.stderr = "" => process.status = 0
        /\ process.stderr = "error" =>
              (process.terminal = "restored" /\ process.status # 0)

\* The tree f with every cursor at 0.
RECURSIVE ZeroCursors(_)
ZeroCursors(f) ==
    [name |-> f.name, tasks |-> f.tasks,
     folders |-> [i \in 1..Len(f.folders) |-> ZeroCursors(f.folders[i])],
     selected |-> 0]

\* C14: saving the tree and loading what was saved gives the same names, tasks
\* and subfolders in the same order at every level with every cursor 0, and
\* saving the loaded tree gives the same output as the first save.
C14_RoundTrip ==
    pc = "run" =>
        LET saved == Serialize(folder)
            loaded == Deserialize(saved)
        IN /\ loaded = ZeroCursors(folder)
           /\ Serialize(loaded) = saved

\* C14 witness: a tree with a subfolder and a task whose root cursor is not 0,
\* so that what is loaded differs from what was saved.
C14_Witness ==
    /\ pc = "run"
    /\ Len(folder.folders) = 1
    /\ Len(folder.tasks) = 1
    /\ folder.selected = 1
    /\ Deserialize(Serialize(folder)) # folder

------------------------------------------------------------------------------
(* Properties of the pending task.                                           *)

------------------------------------------------------------------------------
(* Properties of paths.                                                      *)

\* The paths resolved: up to two segments; "n" names no folder of any tree.
Segments == {<<>>, <<"Y">>, <<"n">>}
ResolvePaths == {<<>>} \cup {<<a>> : a \in Segments} \cup {<<a, b>> : a, b \in Segments}

\* C16: get_folder(path) on a node returns the node itself for the empty path;
\* otherwise it fails with NotFound(segment) when no child subfolder has the
\* path's first segment as its name, and else continues with the rest of the
\* path from the first child, in storage order, of that name.
C16_Resolve ==
    pc = "run" =>
        \A f \in Folders(folder) : \A path \in ResolvePaths :
            LET r == get_folder(f, path)
                named == {i \in 1..Len(f.folders) : f.folders[i].name = Head(path)}
            IN  IF path = <<>> THEN r.ok /\ r.folder = f
                ELSE IF named = {} THEN ~r.ok /\ r.item = Head(path)
                ELSE \E i \in named :
                        /\ \A j \in named : i <= j
                        /\ r = get_folder(f.folders[i], Tail(path))

\* C16 witness: the current path has a segment, and the root holds two
\* subfolders of that name that differ.
C16_Witness ==
    /\ pc = "run"
    /\ selected = << <<"Y">> >>
    /\ Len(folder.folders) = 2
    /\ folder.folders[1].name = <<"Y">>
    /\ folder.folders[2].name = <<"Y">>
    /\ folder.folders[1] # folder.folders[2]

------------------------------------------------------------------------------
(* Properties of the menus.                                                  *)

------------------------------------------------------------------------------
(* Properties of the cursor and of deletion, as functions of a folder.       *)

\* The distances adjust_selected is called with, up to MaxDelta either way.
MaxDelta == 2
Deltas == (0 - MaxDelta)..MaxDelta

\* C18: adjust_selected(delta) on a folder with total > 0 sets the cursor to
\* cursor + delta brought into [0, total-1] and changes nothing else in the
\* folder; the Down and Up keys in Idle do so to the current folder, by 1.
C18_MoveSelection ==
    [][/\ \A f \in Folders(folder) : \A delta \in Deltas :
            LET total == Len(f.folders) + Len(f.tasks)
                to == f.selected + delta
            IN  total > 0 =>
                  adjust_selected(f, delta) =
                      [name |-> f.name, tasks |-> f.tasks, folders |-> f.folders,
                       selected |-> IF to < 0 THEN 0
                                    ELSE IF to > total - 1 THEN total - 1 ELSE to]
       /\ \A key \in {"Down", "Up"} :
            (IdleKey(key) /\ Len(cur_folder.folders) + Len(cur_folder.tasks) > 0) =>
                LET total == Len(cur_folder.folders) + Len(cur_folder.tasks)
                    to == cur_folder.selected + (IF key = "Down" THEN 1 ELSE -1)
                IN  /\ pc' = "run"
                    /\ selected' = selected
                    /\ folder' = PutFolder(folder, selected,
                                    [cur_folder EXCEPT !.selected =
                                        IF to < 0 THEN 0
                                        ELSE IF to > total - 1 THEN total - 1 ELSE to])]_vars

\* C18 witness: the cursor was moved down from a subfolder to the task after
\* it, the last entry, and the help overlay opened there.
C18_Witness ==
    /\ pc = "run"
    /\ input_status = Controls
    /\ Len(cur_folder.folders) = 1
    /\ Len(cur_folder.tasks) = 1
    /\ cur_folder.selected = 1

\* The sequence s without its k-th element (k from 1).
Without(s, k) == SubSeq(s, 1, k - 1) \o SubSeq(s, k + 1, Len(s))

\* C19: delete_selected removes exactly the entry the cursor addresses:
\* subfolders[cursor], subtree and all, when cursor < len(subfolders), else
\* tasks[cursor - len(subfolders)]; the other entries keep their order; the
\* cursor becomes cursor - 1 when it was > 0 and stays 0 otherwise.
C19_DeleteSelected ==
    \A f \in Folders(folder) :
        LET g == delete_selected(f)
            cursor == f.selected
        IN  Len(f.folders) + Len(f.tasks) > 0 =>
              /\ g.name = f.name
              /\ IF cursor < Len(f.folders)
                 THEN g.folders = Without(f.folders, cursor + 1) /\ g.tasks = f.tasks
                 ELSE /\ g.folders = f.folders
                      /\ g.tasks = Without(f.tasks, cursor - Len(f.folders) + 1)
              /\ g.selected = IF cursor > 0 THEN cursor - 1 ELSE 0

\* C19 witness: the subfolder of the loaded store was deleted from under the
\* cursor, the task after it kept.
C19_Witness ==
    /\ pc = "run"
    /\ file = SampleStore
    /\ folder.folders = <<>>
    /\ folder.tasks = SampleStore.data[1].tasks
    /\ folder.selected = 0

------------------------------------------------------------------------------
(* Properties of navigation.                                                 *)

\* The subfolder under the cursor of the current folder, when there is one.
UnderCursor == cur_folder.folders[cur_folder.selected + 1]

\* C20: in Idle, Right with a subfolder selected makes that subfolder the
\* current folder; Right with a task or nothing selected changes nothing; Left
\* makes the parent of the current folder current; Left at the root changes
\* nothing.
C20_Navigation ==
    [][/\ (IdleKey("Right") /\ cur_folder.selected < Len(cur_folder.folders)) =>
            (folder' = folder /\ cur_folder_next = UnderCursor)
       /\ (IdleKey("Right") /\ cur_folder.selected >= Len(cur_folder.folders)) =>
            (folder' = folder /\ selected' = selected)
       /\ (IdleKey("Left") /\ selected # <<>>) =>
            /\ folder' = folder
            /\ Len(selected') = Len(selected) - 1
            /\ \E i \in 1..Len(cur_folder_next.folders) :
                   cur_folder_next.folders[i] = cur_folder
       /\ (IdleKey("Left") /\ selected = <<>>) =>
            (folder' = folder /\ selected' = selected)]_vars

\* C20, amended: Right with a subfolder selected appends that subfolder's name
\* to the current path, so the current folder becomes the first subfolder, in
\* storage order, of the selected subfolder's name: the selected one only when
\* no subfolder before it has its name. Right with a task or nothing selected
\* changes nothing; Left drops the last segment of the path, which makes the
\* parent of the current folder current; Left at the root changes nothing.
C20_NavigationByName ==
    [][/\ (IdleKey("Right") /\ cur_folder.selected < Len(cur_folder.folders)) =>
            /\ folder' = folder
            /\ selected' = selected \o <<UnderCursor.name>>
            /\ \E i \in 1..(cur_folder.selected + 1) :
                   /\ cur_folder.folders[i].name = UnderCursor.name
                   /\ \A j \in 1..(i - 1) : cur_folder.folders[j].name # UnderCursor.name
                   /\ cur_folder_next = cur_folder.folders[i]
            /\ (\A j \in 1..cur_folder.selected :
                   cur_folder.folders[j].name # UnderCursor.name) =>
                 cur_folder_next = UnderCursor
       /\ (IdleKey("Right") /\ cur_folder.selected >= Len(cur_folder.folders)) =>
            (folder' = folder /\ selected' = selected)
       /\ (IdleKey("Left") /\ selected # <<>>) =>
            /\ folder' = folder
            /\ selected' \o <<selected[Len(selected)]>> = selected
            /\ \E i \in 1..Len(cur_folder_next.folders) :
                   cur_folder_next.folders[i] = cur_folder
       /\ (IdleKey("Left") /\ selected = <<>>) =>
            (folder' = folder /\ selected' = selected)]_vars

\* C20 witness: Right was pressed with the second of two subfolders of one name
\* under the cursor, and the current folder is the first of them.
C20_Witness ==
    /\ pc = "run"
    /\ input_status = Empty
    /\ Len(selected) = 1
    /\ Len(folder.folders) = 2
    /\ folder.selected = 1
    /\ folder.folders[2].name = selected[1]
    /\ cur_folder = folder.folders[1]
    /\ cur_folder # folder.folders[2]

------------------------------------------------------------------------------
(* Properties of the whole session.                                          *)

\* C21: Enter in a prompt always clears the buffer and goes to Idle, except
\* that NewTask{Title} goes to the NewTask{Details} prompt and EditTask{Status},
\* having set the selected task's status label to the buffer, goes to the
\* EditTask{StatusColor} prompt; so the prompt after an Enter is a last step,
\* and the prompts NewTask{Status} and NewTask{StatusColor} are never reached.
C21_EnterChains ==
    [][/\ RequestEnter(MaxEntries) =>
            /\ pc' = "run"
            /\ input' = <<>>
            /\ input_status' =
                 IF input_status.req = "NewTask" /\ input_status.step = "Title"
                 THEN [kind |-> "Request", req |-> "NewTask", step |-> "Details"]
                 ELSE IF input_status.req = "EditTask" /\ input_status.step = "Status"
                 THEN [kind |-> "Request", req |-> "EditTask", step |-> "StatusColor"]
                 ELSE [kind |-> "Empty", req |-> "-", step |-> "-"]
            /\ (/\ input_status.req = "EditTask"
                /\ input_status.step = "Status"
                /\ cur_folder.selected >= Len(cur_folder.folders)
                /\ cur_folder.selected < Len(cur_folder.folders) + Len(cur_folder.tasks)) =>
                 cur_folder_next.tasks[cur_folder.selected - Len(cur_folder.folders) + 1]
                     .status.status = input
            /\ input_status'.kind = "Request" =>
                 input_status'.step \in {"Details", "StatusColor"}
       /\ ~(input_status'.req = "NewTask"
            /\ input_status'.step \in {"Status", "StatusColor"})]_vars

\* C21 witness: Enter at EditTask{Status} has set the label of the selected task
\* and opened the StatusColor prompt, with an empty buffer.
C21_Witness ==
    /\ pc = "run"
    /\ input_status = Request("EditTask", "StatusColor")
    /\ input = <<>>
    /\ get_selected_task(cur_folder) # <<>>
    /\ cur_folder.tasks[get_selected_task(cur_folder)[1]].status.status = <<"Y">>

\* `path` leads from f down through first subfolders of its names.
RECURSIVE Resolves(_, _)
Resolves(f, path) ==
    \/ path = <<>>
    \/ \E i \in 1..Len(f.folders) :
          /\ f.folders[i].name = Head(path)
          /\ \A j \in 1..(i - 1) : f.folders[j].name # Head(path)
          /\ Resolves(f.folders[i], Tail(path))

\* C22: after any sequence of keys from a loaded tree the current path resolves
\* from the root, so the get_folder(..).unwrap() at the top of an iteration
\* does not fail: after renames, deletions and the creation of folders of a
\* name already there or of the empty name too.
C22_PathResolves ==
    pc = "run" => (Resolves(folder, selected) /\ get_folder(folder, selected).ok)

\* C22 witness: two levels down, in a subfolder of the empty name whose parent
\* was entered by a name that two subfolders of the root bear.
C22_Witness ==
    /\ pc = "run"
    /\ selected = << <<"Y">>, <<>> >>
    /\ Len(folder.folders) = 2
    /\ folder.folders[2].name = <<"Y">>

\* C23: the buffer is empty in every state that is not a prompt (Idle, help
\* overlay, New menu, Edit menu), and it is empty when a prompt opens, the
\* second prompt of a chain too: no prompt starts with text of an earlier one.
C23_BufferEmpty ==
    [][/\ input_status.kind # "Request" => input = <<>>
       /\ input_status'.kind # "Request" => input' = <<>>
       /\ (input_status'.kind = "Request" /\ input_status' # input_status) =>
            input' = <<>>]_vars

\* C23 witness: the second prompt of the NewTask chain has opened with an empty
\* buffer after a title was typed into the first.
C23_Witness ==
    /\ pc = "run"
    /\ input_status = Request("NewTask", "Details")
    /\ input = <<>>
    /\ temp_task.title = <<"Y">>

\* Some folder at the same place in the trees f and g has another cursor in g.
RECURSIVE CursorMoved(_, _)
CursorMoved(f, g) ==
    \/ f.selected # g.selected
    \/ \E i \in 1..Len(f.folders) :
          i <= Len(g.folders) /\ CursorMoved(f.folders[i], g.folders[i])

\* C24: once the tree is loaded, its persisted content (names, tasks,
\* subfolders and their order) changes only by Enter in a prompt: no key in
\* Idle, the help overlay, the New menu or the Edit menu changes it, and no
\* other key in a prompt; cursors and the current path change only by the
\* Down, Up, Left and Right keys in Idle or by a confirmed deletion.
C24_OnlyEnterEdits ==
    [][/\ (pc = "run" /\ ZeroCursors(folder') # ZeroCursors(folder)) =>
            (input_status.kind = "Request" /\ RequestEnter(MaxEntries))
       /\ (pc = "run" /\ (CursorMoved(folder, folder') \/ selected' # selected)) =>
            \/ /\ input_status.kind = "Empty"
               /\ \E key \in {"Down", "Up", "Left", "Right"} : IdleKey(key)
            \/ /\ input_status = [kind |-> "Request", req |-> "ConfirmDelete", step |-> "-"]
               /\ RequestEnter(MaxEntries)
               /\ input \in {<<"Y">>, <<"y">>}
               /\ selected' = selected]_vars

\* C24 witness: a name is typed into the RenameFolder prompt after the loaded
\* tree was changed, the tree still bearing the old name.
C24_Witness ==
    /\ pc = "run"
    /\ input_status = Request("RenameFolder", "-")
    /\ input = <<"Y">>
    /\ file = SampleStore
    /\ get_selected_folder(cur_folder) # <<>>
    /\ cur_folder.folders[get_selected_folder(cur_folder)[1]].name = <<>>
    /\ ZeroCursors(folder) # Deserialize(SampleStore.data[1])

====
